---- MODULE Spec2Model ----
(***************************************************************************)
(* Account ledger engine: the register (client -> account), the account    *)
(* operations (deposit, withdrawal, dispute, resolve, chargeback) and the  *)
(* dispute state machine of a transaction record.                          *)
(*                                                                         *)
(* Decimal amounts are modelled as integers (a fixed scale); sums and      *)
(* differences of integers are exact, as they are for rust_decimal inside  *)
(* its 96-bit range.                                                       *)
(***************************************************************************)
EXTENDS Integers, FiniteSets, Sequences, Bags, TLC

\* ------------------------------------------------------------------ bounds
\* length of the instruction stream fed to the register
MaxInstructions == 5
\* length of the instruction stream of a whole run of main (RunSpec)
MaxRunLength == 3
\* length of the instruction stream executed next to the shards (ShardSpec)
MaxShardLength == 4
\* number of well-formed records of a stream that may hold a malformed one
\* (FeedSpec)
MaxFeedLength == 3
\* length of the instruction stream whose withdrawals are followed (RefundSpec)
MaxRefundLength == 4
\* length of the instruction stream whose tx ids are followed (AuditSpec)
MaxAuditLength == 4

\* client ids (u16) and tx ids (u32) that occur in the stream
Clients == {1, 2}
TxIds == {1, 2}
\* amounts are signed decimals: the parser accepts a negative amount
Amounts == {0 - 1, 1, 2}

\* ------------------------------------------------- instructions.rs: types
TransactionState == {"Undisputed", "Disputed", "Resolved", "Chargedback"}

\* Transaction built by From<workaround::Instruction>: state starts Undisputed
Transaction(client, tx, amount) ==
  [client |-> client, tx |-> tx, amount |-> amount, state |-> "Undisputed"]

Operation(client, tx) == [client |-> client, tx |-> tx]

Instruction(typ, data) == [typ |-> typ, data |-> data]

\* Instruction::client
InstructionClient(instr) == instr.data.client

\* ------------------------------- instructions.rs: workaround::Instruction
\* Option<Decimal>
None == << >>
Some(amount) == <<amount>>

\* the type tags serde accepts for workaround::InstructionType
InstructionType == {"Deposit", "Withdrawal", "Dispute", "Resolve", "Chargeback"}

\* a type tag of the input that is none of them
UnknownType == "Refund"

\* the rows of the input: with flexible(true) the amount field may be absent
Rows ==
  [typ : InstructionType \cup {UnknownType}, client : Clients, tx : TxIds,
   amount : {None} \cup {Some(a) : a \in Amounts}]

\* records.next(): the row deserialized into workaround::Instruction, or the
\* csv error for a type tag that is no variant of InstructionType
deserialize(row) ==
  IF row.typ \in InstructionType
    THEN [kind |-> "Ok", record |-> row]
    ELSE [kind |-> "CSVError"]

\* mutant: an absent amount is read as zero
from_DefaultsAmount(rec) ==
  CASE rec.typ \in {"Deposit", "Withdrawal"} ->
         [kind |-> "Instruction",
          instruction |->
            Instruction(rec.typ,
                        Transaction(rec.client, rec.tx,
                                    IF rec.amount = None THEN 0 ELSE rec.amount[1]))]
    [] OTHER ->
         [kind |-> "Instruction",
          instruction |-> Instruction(rec.typ, Operation(rec.client, rec.tx))]

\* From<workaround::Instruction> for Instruction: amount.unwrap() panics for a
\* deposit or a withdrawal without amount; a dispute, resolve or chargeback
\* drops the amount
from(rec) ==
  CASE rec.typ \in {"Deposit", "Withdrawal"} ->
         IF rec.amount = None
           THEN [kind |-> "Panic"]
           ELSE [kind |-> "Instruction",
                 instruction |->
                   Instruction(rec.typ,
                               Transaction(rec.client, rec.tx, rec.amount[1]))]
    [] OTHER ->
         [kind |-> "Instruction",
          instruction |-> Instruction(rec.typ, Operation(rec.client, rec.tx))]

\* ------------------------------------------------------- errors.rs: Result
Ok == [kind |-> "Ok"]

TransactionError(message, transaction) ==
  [kind |-> "TransactionError", message |-> message, transaction |-> transaction]

OperationError(message, operation) ==
  [kind |-> "OperationError", message |-> message, operation |-> operation]

TransactionStateError(oldstate, newstate) ==
  [kind |-> "TransactionStateError", oldstate |-> oldstate, newstate |-> newstate]

\* ------------------------------------------- instructions.rs: Transaction
\* mutant: the amount is kept as it is
negate_KeepsSign(data) == data

\* Decimal::set_sign_negative(true): the sign becomes negative, the magnitude
\* is kept (a value that is already negative stays as it is)
negate(data) ==
  [data EXCEPT !.amount = IF data.amount >= 0 THEN 0 - data.amount ELSE data.amount]

\* The try_set_* methods mutate the record's Cell and return a Result: each
\* operator yields the record afterwards and the Result.
\* (try_set_disputed_Lenient, try_set_disputed_Repeatable: mutants)
try_set_disputed_Lenient(entry) ==
  IF entry.state \in {"Undisputed", "Resolved", "Chargedback"}
    THEN [entry |-> [entry EXCEPT !.state = "Disputed"], result |-> Ok]
    ELSE [entry |-> entry, result |-> TransactionStateError(entry.state, "Disputed")]

try_set_disputed_Repeatable(entry) ==
  IF entry.state \in {"Undisputed", "Resolved", "Disputed"}
    THEN [entry |-> [entry EXCEPT !.state = "Disputed"], result |-> Ok]
    ELSE [entry |-> entry, result |-> TransactionStateError(entry.state, "Disputed")]

try_set_disputed(entry) ==
  IF entry.state \in {"Undisputed", "Resolved"}
    THEN [entry |-> [entry EXCEPT !.state = "Disputed"], result |-> Ok]
    ELSE [entry |-> entry, result |-> TransactionStateError(entry.state, "Disputed")]

try_set_resolved(entry) ==
  IF entry.state = "Disputed"
    THEN [entry |-> [entry EXCEPT !.state = "Resolved"], result |-> Ok]
    ELSE [entry |-> entry, result |-> TransactionStateError(entry.state, "Resolved")]

try_set_chargedback(entry) ==
  IF entry.state = "Disputed"
    THEN [entry |-> [entry EXCEPT !.state = "Chargedback"], result |-> Ok]
    ELSE [entry |-> entry, result |-> TransactionStateError(entry.state, "Chargedback")]

\* --------------------------------------------------- account.rs: Account
\* HashMap::insert: the entry for the key is added or replaced
insert(txhistory, tx, data) ==
  [t \in (DOMAIN txhistory) \cup {tx} |-> IF t = tx THEN data ELSE txhistory[t]]

\* Account::default()
AccountDefault ==
  [available |-> 0, held |-> 0, total |-> 0, locked |-> FALSE, txhistory |-> << >>]

\* mutant: a tx id that is already recorded keeps its first record
deposit_KeepsFirst(self, data) ==
  [self |-> [self EXCEPT !.available = @ + data.amount,
                         !.total = @ + data.amount,
                         !.txhistory = IF data.tx \in DOMAIN @
                                         THEN @ ELSE insert(@, data.tx, data)],
   result |-> Ok]

\* Every account operation yields the account afterwards and the Result.
deposit(self, data) ==
  [self |-> [self EXCEPT !.available = @ + data.amount,
                         !.total = @ + data.amount,
                         !.txhistory = insert(@, data.tx, data)],
   result |-> Ok]

\* mutant: the last unit of the available balance cannot be withdrawn
withdrawal_Strict(self, data) ==
  LET available == self.available - data.amount IN
  IF available > 0
    THEN [self |-> [self EXCEPT !.available = available,
                                !.total = @ - data.amount,
                                !.txhistory = insert(@, data.tx, negate(data))],
          result |-> Ok]
    ELSE [self |-> self,
          result |-> TransactionError("attempt to withdraw more than available", data)]

\* mutant: a locked account refuses withdrawals
withdrawal_RefusesLocked(self, data) ==
  LET available == self.available - data.amount IN
  IF available >= 0 /\ ~self.locked
    THEN [self |-> [self EXCEPT !.available = available,
                                !.total = @ - data.amount,
                                !.txhistory = insert(@, data.tx, negate(data))],
          result |-> Ok]
    ELSE [self |-> self,
          result |-> TransactionError("attempt to withdraw more than available", data)]

\* mutant: the balance is written before the check
withdrawal_WritesFirst(self, data) ==
  LET available == self.available - data.amount IN
  IF available >= 0
    THEN [self |-> [self EXCEPT !.available = available,
                                !.total = @ - data.amount,
                                !.txhistory = insert(@, data.tx, negate(data))],
          result |-> Ok]
    ELSE [self |-> [self EXCEPT !.available = available],
          result |-> TransactionError("attempt to withdraw more than available", data)]

withdrawal(self, data) ==
  LET available == self.available - data.amount IN
  IF available >= 0
    THEN [self |-> [self EXCEPT !.available = available,
                                !.total = @ - data.amount,
                                !.txhistory = insert(@, data.tx, negate(data))],
          result |-> Ok]
    ELSE [self |-> self,
          result |-> TransactionError("attempt to withdraw more than available", data)]

\* mutant: a dispute needs the funds to be available
dispute_ChecksFunds(self, data) ==
  IF data.tx \in DOMAIN self.txhistory /\ self.txhistory[data.tx].amount <= self.available
    THEN LET entry == self.txhistory[data.tx]
             set == try_set_disputed(entry) IN
         IF set.result = Ok
           THEN [self |-> [self EXCEPT !.txhistory[data.tx] = set.entry,
                                       !.available = @ - entry.amount,
                                       !.held = @ + entry.amount],
                 result |-> Ok]
           ELSE [self |-> self, result |-> set.result]
    ELSE [self |-> self,
          result |-> OperationError("attempt to dispute non-existing transaction", data)]

\* mutant: the dispute of an unknown tx is kept for the transaction to come
dispute_RemembersUnknown(self, data) ==
  IF data.tx \in DOMAIN self.txhistory
    THEN LET entry == self.txhistory[data.tx]
             set == try_set_disputed(entry) IN
         IF set.result = Ok
           THEN [self |-> [self EXCEPT !.txhistory[data.tx] = set.entry,
                                       !.available = @ - entry.amount,
                                       !.held = @ + entry.amount],
                 result |-> Ok]
           ELSE [self |-> self, result |-> set.result]
    ELSE [self |-> [self EXCEPT !.txhistory =
                      insert(@, data.tx,
                             [client |-> data.client, tx |-> data.tx, amount |-> 0,
                              state |-> "Disputed"])],
          result |-> OperationError("attempt to dispute non-existing transaction", data)]

\* mutant: the magnitude of the record's amount is moved
dispute_MovesMagnitude(self, data) ==
  IF data.tx \in DOMAIN self.txhistory
    THEN LET entry == self.txhistory[data.tx]
             magnitude == IF entry.amount < 0 THEN 0 - entry.amount ELSE entry.amount
             set == try_set_disputed(entry) IN
         IF set.result = Ok
           THEN [self |-> [self EXCEPT !.txhistory[data.tx] = set.entry,
                                       !.available = @ - magnitude,
                                       !.held = @ + magnitude],
                 result |-> Ok]
           ELSE [self |-> self, result |-> set.result]
    ELSE [self |-> self,
          result |-> OperationError("attempt to dispute non-existing transaction", data)]

\* mutant: the funds are moved whatever try_set_disputed answers
dispute_MovesFirst(self, data) ==
  IF data.tx \in DOMAIN self.txhistory
    THEN LET entry == self.txhistory[data.tx]
             set == try_set_disputed(entry) IN
         [self |-> [self EXCEPT !.txhistory[data.tx] = set.entry,
                                !.available = @ - entry.amount,
                                !.held = @ + entry.amount],
          result |-> set.result]
    ELSE [self |-> self,
          result |-> OperationError("attempt to dispute non-existing transaction", data)]

dispute(self, data) ==
  IF data.tx \in DOMAIN self.txhistory
    THEN LET entry == self.txhistory[data.tx]
             set == try_set_disputed(entry) IN
         IF set.result = Ok
           THEN [self |-> [self EXCEPT !.txhistory[data.tx] = set.entry,
                                       !.available = @ - entry.amount,
                                       !.held = @ + entry.amount],
                 result |-> Ok]
           ELSE [self |-> self, result |-> set.result]
    ELSE [self |-> self,
          result |-> OperationError("attempt to dispute non-existing transaction", data)]

\* mutant: a resolved record is dropped from the history
resolve_DropsRecord(self, data) ==
  IF data.tx \in DOMAIN self.txhistory
    THEN LET entry == self.txhistory[data.tx]
             set == try_set_resolved(entry) IN
         IF set.result = Ok
           THEN [self |-> [self EXCEPT
                             !.txhistory = [t \in (DOMAIN @) \ {data.tx} |-> @[t]],
                             !.available = @ + entry.amount,
                             !.held = @ - entry.amount],
                 result |-> Ok]
           ELSE [self |-> self, result |-> set.result]
    ELSE [self |-> self,
          result |-> OperationError("attempt to resolve non-existing transaction", data)]

\* mutant: the held funds are not released
resolve_KeepsHeld(self, data) ==
  IF data.tx \in DOMAIN self.txhistory
    THEN LET entry == self.txhistory[data.tx]
             set == try_set_resolved(entry) IN
         IF set.result = Ok
           THEN [self |-> [self EXCEPT !.txhistory[data.tx] = set.entry,
                                       !.available = @ + entry.amount],
                 result |-> Ok]
           ELSE [self |-> self, result |-> set.result]
    ELSE [self |-> self,
          result |-> OperationError("attempt to resolve non-existing transaction", data)]

resolve(self, data) ==
  IF data.tx \in DOMAIN self.txhistory
    THEN LET entry == self.txhistory[data.tx]
             set == try_set_resolved(entry) IN
         IF set.result = Ok
           THEN [self |-> [self EXCEPT !.txhistory[data.tx] = set.entry,
                                       !.available = @ + entry.amount,
                                       !.held = @ - entry.amount],
                 result |-> Ok]
           ELSE [self |-> self, result |-> set.result]
    ELSE [self |-> self,
          result |-> OperationError("attempt to resolve non-existing transaction", data)]

\* mutant: total is not reduced
chargeback_KeepsTotal(self, data) ==
  IF data.tx \in DOMAIN self.txhistory
    THEN LET entry == self.txhistory[data.tx]
             set == try_set_chargedback(entry) IN
         IF set.result = Ok
           THEN [self |-> [self EXCEPT !.txhistory[data.tx] = set.entry,
                                       !.locked = TRUE,
                                       !.held = @ - entry.amount],
                 result |-> Ok]
           ELSE [self |-> self, result |-> set.result]
    ELSE [self |-> self,
          result |-> OperationError("attempt to chargeback non-existing transaction", data)]

\* mutant: the account is not locked
chargeback_NoLock(self, data) ==
  IF data.tx \in DOMAIN self.txhistory
    THEN LET entry == self.txhistory[data.tx]
             set == try_set_chargedback(entry) IN
         IF set.result = Ok
           THEN [self |-> [self EXCEPT !.txhistory[data.tx] = set.entry,
                                       !.total = @ - entry.amount,
                                       !.held = @ - entry.amount],
                 result |-> Ok]
           ELSE [self |-> self, result |-> set.result]
    ELSE [self |-> self,
          result |-> OperationError("attempt to chargeback non-existing transaction", data)]

\* mutant: the amount is taken from available instead of held
chargeback_FromAvailable(self, data) ==
  IF data.tx \in DOMAIN self.txhistory
    THEN LET entry == self.txhistory[data.tx]
             set == try_set_chargedback(entry) IN
         IF set.result = Ok
           THEN [self |-> [self EXCEPT !.txhistory[data.tx] = set.entry,
                                       !.locked = TRUE,
                                       !.total = @ - entry.amount,
                                       !.available = @ - entry.amount],
                 result |-> Ok]
           ELSE [self |-> self, result |-> set.result]
    ELSE [self |-> self,
          result |-> OperationError("attempt to chargeback non-existing transaction", data)]

\* mutant: an unknown tx locks the account all the same
chargeback_LocksUnknown(self, data) ==
  IF data.tx \in DOMAIN self.txhistory
    THEN LET entry == self.txhistory[data.tx]
             set == try_set_chargedback(entry) IN
         IF set.result = Ok
           THEN [self |-> [self EXCEPT !.txhistory[data.tx] = set.entry,
                                       !.locked = TRUE,
                                       !.total = @ - entry.amount,
                                       !.held = @ - entry.amount],
                 result |-> Ok]
           ELSE [self |-> self, result |-> set.result]
    ELSE [self |-> [self EXCEPT !.locked = TRUE],
          result |-> OperationError("attempt to chargeback non-existing transaction", data)]

chargeback(self, data) ==
  IF data.tx \in DOMAIN self.txhistory
    THEN LET entry == self.txhistory[data.tx]
             set == try_set_chargedback(entry) IN
         IF set.result = Ok
           THEN [self |-> [self EXCEPT !.txhistory[data.tx] = set.entry,
                                       !.locked = TRUE,
                                       !.total = @ - entry.amount,
                                       !.held = @ - entry.amount],
                 result |-> Ok]
           ELSE [self |-> self, result |-> set.result]
    ELSE [self |-> self,
          result |-> OperationError("attempt to chargeback non-existing transaction", data)]

apply(self, instr) ==
  CASE instr.typ = "Deposit"    -> deposit(self, instr.data)
    [] instr.typ = "Withdrawal" -> withdrawal(self, instr.data)
    [] instr.typ = "Dispute"    -> dispute(self, instr.data)
    [] instr.typ = "Resolve"    -> resolve(self, instr.data)
    [] instr.typ = "Chargeback" -> chargeback(self, instr.data)

\* ------------------------------------------------------ main.rs: Register
VARIABLES
  thebook,      \* Register.thebook: client -> Account, for the clients seen
  instruction,  \* the instruction Register::execute was last called with
  result,       \* what Account::apply returned for it (logged by execute)
  executed,     \* number of instructions executed so far
  pc,           \* where main is: "process" (reading records), "done" (dumped),
                \* "failed" (returned an error), "panicked"
  output,       \* the rows main has written to the sink
  \* history variables: what has happened to <<client, tx>> so far
  charged_back,          \* a chargeback of tx has succeeded on client's account
  charged_back_same,     \* ... and tx was not recorded anew since
  dispute_pending,       \* a dispute was applied to the recorded tx and no
                         \* resolve of tx has succeeded since
  dispute_pending_same,  \* ... and tx was not recorded anew since
  \* history variables: what the stream has held so far
  seen,         \* the clients of the instructions read
  dw_only,      \* every instruction read was a deposit or a withdrawal
  dw_net,       \* while dw_only: per client, the deposits minus the
                \* withdrawals that did not exceed the available balance
  \* one register per client, fed with that client's instructions only (the
  \* sharding of spec section 5), and the outcome of the last instruction there
  shards,
  shard_result,
  record,       \* the row the reader of Register::process yielded last
  \* history variable: for <<client, tx>> whose record a withdrawal stored,
  \* the withdrawal's amount, how far its dispute has got and what the
  \* withdrawal, the dispute and the chargeback did to the balances
  withdrawn,
  \* history variables: what the stream has carried so far
  reused,       \* the clients whose account had a record replaced: a deposit or
                \* a successful withdrawal carried a tx id of its history
  negative,     \* the clients with a deposit or withdrawal of a negative amount
  carried,      \* the <<client, tx>> a deposit or withdrawal has carried
  early         \* the <<client, tx>> a dispute, resolve or chargeback named
                \* before any deposit or withdrawal carried it

vars == <<thebook, instruction, result, executed, pc, output,
          charged_back, charged_back_same, dispute_pending, dispute_pending_same,
          seen, dw_only, dw_net, shards, shard_result, record,
          withdrawn, reused, negative, carried, early>>

\* the history variables of the ledger
ledger_history == <<withdrawn, reused, negative, carried, early>>

NoInstruction == [typ |-> "None"]
NoRecord == [typ |-> "None"]

\* HashMap::entry(client).or_insert_with(Account::default)
or_insert_default(book, client) ==
  IF client \in DOMAIN book THEN book[client] ELSE AccountDefault

\* mutant: the instruction is applied to every account of the register
execute_in_Shared(book, instr) ==
  LET client == InstructionClient(instr)
      account == or_insert_default(book, client)
      applied == apply(account, instr) IN
  [thebook |-> [c \in (DOMAIN book) \cup {client} |->
                  IF c = client THEN applied.self ELSE apply(book[c], instr).self],
   result |-> applied.result]

\* mutant: the account is kept only when the instruction succeeded
execute_in_KeepsOnSuccess(book, instr) ==
  LET client == InstructionClient(instr)
      account == or_insert_default(book, client)
      applied == apply(account, instr) IN
  [thebook |-> [c \in (DOMAIN book) \cup (IF applied.result = Ok THEN {client} ELSE {}) |->
                  IF c = client THEN applied.self ELSE book[c]],
   result |-> applied.result]

\* Register::execute on a register whose thebook is book: the register
\* afterwards and the Result that execute logs
execute_in(book, instr) ==
  LET client == InstructionClient(instr)
      account == or_insert_default(book, client)
      applied == apply(account, instr) IN
  [thebook |-> [c \in (DOMAIN book) \cup {client} |->
                  IF c = client THEN applied.self ELSE book[c]],
   result |-> applied.result]

\* Register::default()
Init ==
  /\ thebook = << >>
  /\ instruction = NoInstruction
  /\ result = Ok
  /\ executed = 0
  /\ pc = "process"
  /\ output = EmptyBag
  /\ charged_back = {}
  /\ charged_back_same = {}
  /\ dispute_pending = {}
  /\ dispute_pending_same = {}
  /\ seen = {}
  /\ dw_only = TRUE
  /\ dw_net = << >>
  /\ shards = << >>
  /\ shard_result = Ok
  /\ record = NoRecord
  /\ withdrawn = << >>
  /\ reused = {}
  /\ negative = {}
  /\ carried = {}
  /\ early = {}

\* What execute's call of apply means for the history variables
observe(account, instr, res) ==
  LET key == <<instr.data.client, instr.data.tx>>
      recorded == instr.data.tx \in DOMAIN account.txhistory
      recorded_anew == instr.typ \in {"Deposit", "Withdrawal"} /\ res = Ok IN
  /\ charged_back' =
       IF instr.typ = "Chargeback" /\ res = Ok
         THEN charged_back \cup {key} ELSE charged_back
  /\ charged_back_same' =
       IF instr.typ = "Chargeback" /\ res = Ok THEN charged_back_same \cup {key}
       ELSE IF recorded_anew THEN charged_back_same \ {key}
       ELSE charged_back_same
  /\ dispute_pending' =
       IF instr.typ = "Dispute" /\ recorded THEN dispute_pending \cup {key}
       ELSE IF instr.typ = "Resolve" /\ res = Ok THEN dispute_pending \ {key}
       ELSE dispute_pending
  /\ dispute_pending_same' =
       IF instr.typ = "Dispute" /\ recorded THEN dispute_pending_same \cup {key}
       ELSE IF (instr.typ = "Resolve" /\ res = Ok) \/ recorded_anew
         THEN dispute_pending_same \ {key}
       ELSE dispute_pending_same

\* What the instruction read means for the history of the stream
observe_stream(account, instr) ==
  LET client == instr.data.client
      only == dw_only /\ instr.typ \in {"Deposit", "Withdrawal"}
      change == CASE instr.typ = "Deposit" -> instr.data.amount
                  [] instr.typ = "Withdrawal" ->
                       IF instr.data.amount <= account.available
                         THEN 0 - instr.data.amount ELSE 0
                  [] OTHER -> 0 IN
  /\ seen' = seen \cup {client}
  /\ dw_only' = only
  /\ dw_net' =
       IF only
         THEN [c \in (DOMAIN dw_net) \cup {client} |->
                 (IF c \in DOMAIN dw_net THEN dw_net[c] ELSE 0)
                   + (IF c = client THEN change ELSE 0)]
         ELSE << >>

\* The worker of the instruction's client executes it on its own register
observe_shard(instr) ==
  LET client == instr.data.client
      own == IF client \in DOMAIN shards THEN shards[client] ELSE << >>
      done == execute_in(own, instr) IN
  /\ shards' = [c \in (DOMAIN shards) \cup {client} |->
                  IF c = client THEN done.thebook ELSE shards[c]]
  /\ shard_result' = done.result

\* mutant: a failed instruction ends the processing (the error is propagated
\* instead of logged)
execute_Propagates(instr) ==
  LET account == or_insert_default(thebook, InstructionClient(instr))
      done == execute_in(thebook, instr) IN
  /\ pc = "process"
  /\ executed < MaxInstructions
  /\ thebook' = done.thebook
  /\ instruction' = instr
  /\ result' = done.result
  /\ executed' = executed + 1
  /\ pc' = IF done.result = Ok THEN pc ELSE "failed"
  /\ output' = output
  /\ observe(account, instr, done.result)

\* Register::execute, called by the loop of Register::process with the record
\* read: it logs an error and returns
execute(instr) ==
  LET account == or_insert_default(thebook, InstructionClient(instr))
      done == execute_in(thebook, instr) IN
  /\ pc = "process"
  /\ executed < MaxInstructions
  /\ thebook' = done.thebook
  /\ instruction' = instr
  /\ result' = done.result
  /\ executed' = executed + 1
  /\ UNCHANGED <<pc, output>>
  /\ observe(account, instr, done.result)

\* the history of the stream and the shards are not followed
Unobserved ==
  UNCHANGED <<seen, dw_only, dw_net, shards, shard_result, record, ledger_history>>

ExecuteDeposit ==
  \E c \in Clients, t \in TxIds, a \in Amounts :
    execute(Instruction("Deposit", Transaction(c, t, a))) /\ Unobserved

ExecuteWithdrawal ==
  \E c \in Clients, t \in TxIds, a \in Amounts :
    execute(Instruction("Withdrawal", Transaction(c, t, a))) /\ Unobserved

ExecuteDispute ==
  \E c \in Clients, t \in TxIds :
    execute(Instruction("Dispute", Operation(c, t))) /\ Unobserved

ExecuteResolve ==
  \E c \in Clients, t \in TxIds :
    execute(Instruction("Resolve", Operation(c, t))) /\ Unobserved

ExecuteChargeback ==
  \E c \in Clients, t \in TxIds :
    execute(Instruction("Chargeback", Operation(c, t))) /\ Unobserved

\* the well-formed records of a stream, converted (From<workaround::Instruction>)
Instructions ==
  { Instruction(typ, Transaction(c, t, a)) :
      typ \in {"Deposit", "Withdrawal"}, c \in Clients, t \in TxIds, a \in Amounts }
  \cup
  { Instruction(typ, Operation(c, t)) :
      typ \in {"Dispute", "Resolve", "Chargeback"}, c \in Clients, t \in TxIds }

\* The register while the stream is being processed (Register::process)
Next ==
  \/ ExecuteDeposit
  \/ ExecuteWithdrawal
  \/ ExecuteDispute
  \/ ExecuteResolve
  \/ ExecuteChargeback

Spec == Init /\ [][Next]_vars

\* ----------------------------------------------- output.rs, main.rs: dump
\* Output::convert_from
convert_from(client, account) ==
  [client |-> client, available |-> account.available, held |-> account.held,
   total |-> account.total, locked |-> account.locked]

\* Register::dump, inner_dump: HashMap::into_iter yields every entry once, in
\* an order that is not specified, and one row is written per entry: the rows
\* written, as a bag
dump_rows(book) ==
  SetToBag({ convert_from(c, book[c]) : c \in DOMAIN book })

\* One turn of the loop of Register::process in a run of main: a record is
\* read and executed
Process ==
  /\ executed < MaxRunLength
  /\ \E instr \in Instructions :
       /\ execute(instr)
       /\ observe_stream(or_insert_default(thebook, InstructionClient(instr)), instr)
  /\ UNCHANGED <<shards, shard_result, record, ledger_history>>

\* The stream is at its end: process returns Ok and main dumps the register
Finish ==
  /\ pc = "process"
  /\ output' = dump_rows(thebook)
  /\ pc' = "done"
  /\ UNCHANGED <<thebook, instruction, result, executed,
                 charged_back, charged_back_same, dispute_pending,
                 dispute_pending_same, seen, dw_only, dw_net, shards, shard_result,
                 record, ledger_history>>

\* main: the stream is processed to its end, then the register is dumped
RunNext ==
  \/ Process
  \/ Finish

\* main runs on until it returns
RunSpec == Init /\ [][RunNext]_vars /\ WF_vars(RunNext)

\* ------------------------------------------------- sharding by client id
\* An instruction is executed by the register and, next to it, by the worker
\* of its client
ShardNext ==
  /\ executed < MaxShardLength
  /\ \E instr \in Instructions :
       /\ execute(instr)
       /\ observe_shard(instr)
  /\ UNCHANGED <<seen, dw_only, dw_net, record, ledger_history>>

ShardSpec == Init /\ [][ShardNext]_vars

\* ------------------------------------------- a stream with malformed rows
\* everything but the position of main and the row read stays as it is
Aborted ==
  UNCHANGED <<thebook, instruction, result, executed, output,
              charged_back, charged_back_same, dispute_pending,
              dispute_pending_same, seen, dw_only, dw_net, shards, shard_result,
              ledger_history>>

\* records.next() yields an error: `result?` returns it from process, and
\* `register.process(..).await?` returns it from main, before the dump
ReadError ==
  /\ pc = "process"
  /\ \E row \in Rows :
       /\ deserialize(row).kind = "CSVError"
       /\ record' = row
  /\ pc' = "failed"
  /\ Aborted

\* record.into() panics: the run ends there
ReadPanic ==
  /\ pc = "process"
  /\ \E row \in Rows :
       /\ deserialize(row).kind = "Ok"
       /\ from(deserialize(row).record).kind = "Panic"
       /\ record' = row
  /\ pc' = "panicked"
  /\ Aborted

\* the record is converted and executed
ReadInstruction ==
  /\ executed < MaxFeedLength
  /\ \E row \in Rows :
       /\ deserialize(row).kind = "Ok"
       /\ from(deserialize(row).record).kind = "Instruction"
       /\ record' = row
       /\ execute(from(deserialize(row).record).instruction)
  /\ UNCHANGED <<seen, dw_only, dw_net, shards, shard_result, ledger_history>>

\* main on a stream whose rows may be malformed
FeedNext ==
  \/ ReadInstruction
  \/ ReadError
  \/ ReadPanic
  \/ Finish

FeedSpec == Init /\ [][FeedNext]_vars

\* ------------------------------------------- withdrawals and their disputes
\* what an instruction did to the balances of its account
Effect(before, after) ==
  [available |-> after.available - before.available,
   held |-> after.held - before.held,
   total |-> after.total - before.total]

NoEffect == [available |-> 0, held |-> 0, total |-> 0]

\* What execute's call of apply means for the history of the withdrawals:
\* before and after are the account before and after the call
observe_withdrawal(before, after, instr, res) ==
  LET key == <<instr.data.client, instr.data.tx>>
      known == key \in DOMAIN withdrawn
      done == Effect(before, after) IN
  withdrawn' =
    CASE instr.typ = "Withdrawal" /\ res = Ok ->
           [k \in (DOMAIN withdrawn) \cup {key} |->
              IF k = key
                THEN [amount |-> instr.data.amount, stage |-> "Recorded",
                      withdrawal |-> done, dispute |-> NoEffect,
                      chargeback |-> NoEffect]
                ELSE withdrawn[k]]
      [] instr.typ = "Deposit" ->
           [k \in (DOMAIN withdrawn) \ {key} |-> withdrawn[k]]
      [] instr.typ = "Dispute" /\ res = Ok /\ known ->
           [withdrawn EXCEPT ![key].stage = "Disputed", ![key].dispute = done]
      [] instr.typ = "Resolve" /\ res = Ok /\ known ->
           [withdrawn EXCEPT ![key].stage = "Resolved", ![key].dispute = NoEffect]
      [] instr.typ = "Chargeback" /\ res = Ok /\ known ->
           [withdrawn EXCEPT ![key].stage = "Chargedback", ![key].chargeback = done]
      [] OTHER -> withdrawn

\* An instruction is executed and the history of the withdrawals follows it
RefundNext ==
  /\ executed < MaxRefundLength
  /\ \E instr \in Instructions :
       /\ execute(instr)
       /\ observe_withdrawal(or_insert_default(thebook, InstructionClient(instr)),
                             thebook'[InstructionClient(instr)], instr, result')
  /\ UNCHANGED <<seen, dw_only, dw_net, shards, shard_result, record,
                 reused, negative, carried, early>>

RefundSpec == Init /\ [][RefundNext]_vars

\* ------------------------------------------------- tx ids and amounts read
\* What the instruction read means for the history of the stream's tx ids
\* and amounts: before is the account before execute's call of apply
observe_audit(before, instr, res) ==
  LET client == instr.data.client
      key == <<client, instr.data.tx>>
      transaction == instr.typ \in {"Deposit", "Withdrawal"}
      stored == instr.typ = "Deposit" \/ (instr.typ = "Withdrawal" /\ res = Ok) IN
  /\ reused' =
       IF stored /\ instr.data.tx \in DOMAIN before.txhistory
         THEN reused \cup {client} ELSE reused
  /\ negative' =
       IF transaction /\ instr.data.amount < 0
         THEN negative \cup {client} ELSE negative
  /\ carried' = IF transaction THEN carried \cup {key} ELSE carried
  /\ early' =
       IF ~transaction /\ key \notin carried THEN early \cup {key} ELSE early

\* An instruction is executed and the history of tx ids and amounts follows
AuditNext ==
  /\ executed < MaxAuditLength
  /\ \E instr \in Instructions :
       /\ execute(instr)
       /\ observe_audit(or_insert_default(thebook, InstructionClient(instr)),
                        instr, result')
  /\ UNCHANGED <<seen, dw_only, dw_net, shards, shard_result, record, withdrawn>>

AuditSpec == Init /\ [][AuditNext]_vars

\* ------------------------------------------------------------ vocabulary
\* The step that executes an instruction: the instruction is instruction',
\* the account it is applied to is Target, the account afterwards TargetAfter.
StepClient == instruction'.data.client
StepTx == instruction'.data.tx
StepKey == <<StepClient, StepTx>>
Target == or_insert_default(thebook, StepClient)
TargetAfter == thebook'[StepClient]
IsStep(typ) == executed' = executed + 1 /\ instruction'.typ = typ
IsOperationStep ==
  executed' = executed + 1 /\ instruction'.typ \in {"Dispute", "Resolve", "Chargeback"}
StepRecorded == StepTx \in DOMAIN Target.txhistory
SameBalances(a, b) ==
  a.available = b.available /\ a.held = b.held /\ a.total = b.total
\* the account of the last executed instruction, in a state
LastAccount == thebook[instruction.data.client]

\* --------------------------------------------------------------- claims
\* C1: every account of the register has total = available + held, after
\* every instruction, failed ones included
C1_TotalIsAvailablePlusHeld ==
  \A c \in DOMAIN thebook :
    thebook[c].total = thebook[c].available + thebook[c].held

\* C1 witness: a locked account (a chargeback succeeded) with funds still held
C1_Witness ==
  \E c \in DOMAIN thebook : thebook[c].locked /\ thebook[c].held # 0

\* C2: a withdrawal of more than the available balance returns a
\* TransactionError and leaves the whole account (balances, locked, history)
\* as it was
C2_OverdraftLeavesAccount ==
  [][(IsStep("Withdrawal") /\ instruction'.data.amount > Target.available)
       => /\ result'.kind = "TransactionError"
          /\ TargetAfter = Target]_vars

\* C2 witness: a withdrawal failed on an account with a history and held funds
C2_Witness ==
  /\ instruction.typ = "Withdrawal"
  /\ result.kind = "TransactionError"
  /\ LastAccount.txhistory # << >>
  /\ LastAccount.held # 0

\* C3: a dispute, resolve or chargeback of a tx that is not in the history of
\* the instruction's client returns an OperationError and leaves every
\* account as it was
C3_UnknownTxLeavesAccounts ==
  [][(IsOperationStep /\ ~StepRecorded)
       => /\ result'.kind = "OperationError"
          /\ TargetAfter = Target
          /\ \A c \in DOMAIN thebook : thebook'[c] = thebook[c]]_vars

\* C3 witness: the tx was unknown for the client while another client's
\* account holds a record with that tx id
C3_Witness ==
  /\ instruction.typ \in {"Dispute", "Resolve", "Chargeback"}
  /\ result.kind = "OperationError"
  /\ \E c \in DOMAIN thebook :
       /\ c # instruction.data.client
       /\ instruction.data.tx \in DOMAIN thebook[c].txhistory

LegalTransitions ==
  { <<"Undisputed", "Disputed">>, <<"Resolved", "Disputed">>,
    <<"Disputed", "Resolved">>, <<"Disputed", "Chargedback">> }

RequestedState ==
  CASE instruction'.typ = "Dispute" -> "Disputed"
    [] instruction'.typ = "Resolve" -> "Resolved"
    [] instruction'.typ = "Chargeback" -> "Chargedback"

\* the step stores a new record under <<c, t>> (a deposit or a successful
\* withdrawal): the old record is dropped
RecordedAnew(c, t) ==
  /\ instruction'.typ \in {"Deposit", "Withdrawal"}
  /\ result' = Ok
  /\ StepKey = <<c, t>>

\* C4: a record's state changes only along the four legal transitions; any
\* other requested transition returns TransactionStateError(current state,
\* requested state) and leaves the state; nothing leaves Chargedback
C4_StateMachine ==
  [][ /\ \A c \in DOMAIN thebook : \A t \in DOMAIN thebook[c].txhistory :
           LET old == thebook[c].txhistory[t].state
               new == thebook'[c].txhistory[t].state IN
           ~RecordedAnew(c, t) =>
             /\ new = old \/ <<old, new>> \in LegalTransitions
             /\ old = "Chargedback" => new = "Chargedback"
      /\ (IsOperationStep /\ StepRecorded) =>
           LET old == Target.txhistory[StepTx].state
               new == TargetAfter.txhistory[StepTx].state IN
           <<old, RequestedState>> \notin LegalTransitions =>
             /\ result' = TransactionStateError(old, RequestedState)
             /\ new = old ]_vars

\* C4 witness: a resolve was requested for a charged-back record
C4_Witness ==
  /\ instruction.typ = "Resolve"
  /\ result = TransactionStateError("Chargedback", "Resolved")

\* a dispute directly after a successful resolve of the same tx of the same
\* client succeeds and moves the record's amount from available to held
DisputeAfterResolve ==
  (/\ instruction.typ = "Resolve" /\ result = Ok
   /\ IsStep("Dispute") /\ StepKey = <<instruction.data.client, instruction.data.tx>>)
    => LET amount == Target.txhistory[StepTx].amount IN
       /\ result' = Ok
       /\ TargetAfter.txhistory[StepTx].state = "Disputed"
       /\ TargetAfter.available = Target.available - amount
       /\ TargetAfter.held = Target.held + amount

\* C5 as stated: a second dispute of a recorded tx with no resolve of it in
\* between fails with a TransactionStateError and changes no balance;
\* dispute, resolve, dispute succeeds
C5_Original ==
  [][ /\ (IsStep("Dispute") /\ StepKey \in dispute_pending)
           => /\ result'.kind = "TransactionStateError"
              /\ SameBalances(TargetAfter, Target)
      /\ DisputeAfterResolve ]_vars

\* C5 amended: a second dispute of a recorded tx with no resolve of it and no
\* deposit or successful withdrawal carrying its tx id in between fails with
\* a TransactionStateError and changes no balance; dispute, resolve, dispute
\* succeeds
C5_SecondDisputeFails ==
  [][ /\ (IsStep("Dispute") /\ StepKey \in dispute_pending_same)
           => /\ result'.kind = "TransactionStateError"
              /\ SameBalances(TargetAfter, Target)
      /\ DisputeAfterResolve ]_vars

\* C5 witness: a dispute was refused because the record is under dispute
C5_Witness ==
  /\ instruction.typ = "Dispute"
  /\ result = TransactionStateError("Disputed", "Disputed")
  /\ <<instruction.data.client, instruction.data.tx>> \in dispute_pending_same

\* C6 as stated: once a chargeback of tx has succeeded on an account, every
\* later dispute of tx on it fails with a TransactionStateError and changes
\* nothing, whatever was applied in between
C6_Original ==
  [][(IsStep("Dispute") /\ StepKey \in charged_back)
       => /\ result'.kind = "TransactionStateError"
          /\ TargetAfter = Target]_vars

\* C6 amended: once a chargeback of tx has succeeded on an account, every
\* later dispute of tx on it fails with a TransactionStateError and changes
\* nothing, as long as no deposit or successful withdrawal carrying that tx
\* id was applied to the account in between
C6_DisputeAfterChargebackFails ==
  [][(IsStep("Dispute") /\ StepKey \in charged_back_same)
       => /\ result'.kind = "TransactionStateError"
          /\ TargetAfter = Target]_vars

\* C6 witness: a dispute of a charged-back tx was refused on an account that
\* has recorded another transaction meanwhile
C6_Witness ==
  /\ instruction.typ = "Dispute"
  /\ result = TransactionStateError("Chargedback", "Disputed")
  /\ <<instruction.data.client, instruction.data.tx>> \in charged_back_same
  /\ Cardinality(DOMAIN LastAccount.txhistory) > 1

\* C7: an account is locked exactly when a chargeback has succeeded on it,
\* and a locked account stays locked
C7_LockedIffChargedBack ==
  /\ [](\A c \in DOMAIN thebook :
          thebook[c].locked <=> (\E t \in TxIds : <<c, t>> \in charged_back))
  /\ [][\A c \in DOMAIN thebook : thebook[c].locked => thebook'[c].locked]_vars

\* C7 witness: a locked account has taken a deposit after its chargeback
C7_Witness ==
  /\ instruction.typ = "Deposit"
  /\ LastAccount.locked

\* C8: a dispute of a record that is Undisputed or Resolved makes it Disputed
\* and moves the stored signed amount from available to held, total and
\* locked unchanged; a dispute of a Disputed or Chargedback record changes no
\* balance
C8_Dispute ==
  [][(IsStep("Dispute") /\ StepRecorded) =>
       LET entry == Target.txhistory[StepTx] IN
       IF entry.state \in {"Undisputed", "Resolved"}
         THEN /\ TargetAfter.txhistory[StepTx].state = "Disputed"
              /\ TargetAfter.available = Target.available - entry.amount
              /\ TargetAfter.held = Target.held + entry.amount
              /\ TargetAfter.total = Target.total
              /\ TargetAfter.locked = Target.locked
         ELSE SameBalances(TargetAfter, Target) ]_vars

\* C8 witness: a dispute of a record with a negative stored amount succeeded
\* on a locked account
C8_Witness ==
  /\ instruction.typ = "Dispute"
  /\ result = Ok
  /\ LastAccount.txhistory[instruction.data.tx].amount < 0
  /\ LastAccount.locked

\* dispute then resolve of a record that can be disputed gives back the
\* balances the account had
DisputeResolveRoundTrip ==
  \A c \in DOMAIN thebook : \A t \in DOMAIN thebook[c].txhistory :
    thebook[c].txhistory[t].state \in {"Undisputed", "Resolved"} =>
      LET disputed == dispute(thebook[c], Operation(c, t))
          resolved == resolve(disputed.self, Operation(c, t)) IN
      /\ disputed.result = Ok
      /\ resolved.result = Ok
      /\ resolved.self.txhistory[t].state = "Resolved"
      /\ SameBalances(resolved.self, thebook[c])

\* C9: a resolve succeeds only on a Disputed record; it then makes the record
\* Resolved and moves the stored amount from held to available, total and
\* locked unchanged, so that dispute then resolve restores the balances; on a
\* record in another state it leaves balances and state
C9_Resolve ==
  /\ [][(IsStep("Resolve") /\ StepRecorded) =>
          LET entry == Target.txhistory[StepTx] IN
          /\ result' = Ok <=> entry.state = "Disputed"
          /\ IF entry.state = "Disputed"
               THEN /\ TargetAfter.txhistory[StepTx].state = "Resolved"
                    /\ TargetAfter.available = Target.available + entry.amount
                    /\ TargetAfter.held = Target.held - entry.amount
                    /\ TargetAfter.total = Target.total
                    /\ TargetAfter.locked = Target.locked
               ELSE /\ SameBalances(TargetAfter, Target)
                    /\ TargetAfter.txhistory[StepTx].state = entry.state ]_vars
  /\ []DisputeResolveRoundTrip

\* C9 witness: a resolve succeeded and the account holds nothing any more
C9_Witness ==
  /\ instruction.typ = "Resolve"
  /\ result = Ok
  /\ LastAccount.txhistory[instruction.data.tx].state = "Resolved"
  /\ LastAccount.held = 0
  /\ LastAccount.available # 0

\* C10: a chargeback succeeds only on a Disputed record; it then makes the
\* record Chargedback, locks the account and takes the stored amount from
\* total and held, available unchanged; on a record in another state it
\* leaves balances, locked and the record's state
C10_Chargeback ==
  [][(IsStep("Chargeback") /\ StepRecorded) =>
       LET entry == Target.txhistory[StepTx] IN
       /\ result' = Ok <=> entry.state = "Disputed"
       /\ IF entry.state = "Disputed"
            THEN /\ TargetAfter.txhistory[StepTx].state = "Chargedback"
                 /\ TargetAfter.locked
                 /\ TargetAfter.total = Target.total - entry.amount
                 /\ TargetAfter.held = Target.held - entry.amount
                 /\ TargetAfter.available = Target.available
            ELSE /\ SameBalances(TargetAfter, Target)
                 /\ TargetAfter.locked = Target.locked
                 /\ TargetAfter.txhistory[StepTx].state = entry.state ]_vars

\* C10 witness: a chargeback succeeded on an account that keeps available funds
C10_Witness ==
  /\ instruction.typ = "Chargeback"
  /\ result = Ok
  /\ LastAccount.txhistory[instruction.data.tx].state = "Chargedback"
  /\ LastAccount.available # 0

\* C11: a deposit always succeeds, adds its amount to available and total,
\* leaves held and locked, and stores its record, Undisputed, under its tx
\* id, in place of any record that tx id had; the other records and the
\* balances are not adjusted for a replaced record
C11_Deposit ==
  [][IsStep("Deposit") =>
       LET data == instruction'.data IN
       /\ result' = Ok
       /\ TargetAfter.available = Target.available + data.amount
       /\ TargetAfter.total = Target.total + data.amount
       /\ TargetAfter.held = Target.held
       /\ TargetAfter.locked = Target.locked
       /\ DOMAIN TargetAfter.txhistory = (DOMAIN Target.txhistory) \cup {data.tx}
       /\ TargetAfter.txhistory[data.tx] =
            [client |-> data.client, tx |-> data.tx,
             amount |-> data.amount, state |-> "Undisputed"]
       /\ \A t \in DOMAIN Target.txhistory :
            t # data.tx => TargetAfter.txhistory[t] = Target.txhistory[t] ]_vars

\* C11 witness: a deposit has replaced the record of a charged-back tx, whose
\* amount stays taken from total
C11_Witness ==
  /\ instruction.typ = "Deposit"
  /\ <<instruction.data.client, instruction.data.tx>> \in charged_back
  /\ LastAccount.txhistory[instruction.data.tx].state = "Undisputed"
  /\ LastAccount.total = instruction.data.amount

\* C12: a withdrawal succeeds exactly when available - amount >= 0, whatever
\* held, total and locked are; it then takes the amount from available and
\* total and leaves held and locked
C12_Withdrawal ==
  [][IsStep("Withdrawal") =>
       LET data == instruction'.data IN
       /\ result' = Ok <=> Target.available - data.amount >= 0
       /\ result' = Ok =>
            /\ TargetAfter.available = Target.available - data.amount
            /\ TargetAfter.total = Target.total - data.amount
            /\ TargetAfter.held = Target.held
            /\ TargetAfter.locked = Target.locked ]_vars

\* C12 witness: the whole available balance was withdrawn from a locked
\* account
C12_Witness ==
  /\ instruction.typ = "Withdrawal"
  /\ result = Ok
  /\ instruction.data.amount > 0
  /\ LastAccount.available = 0
  /\ LastAccount.locked

\* C13 as stated: a withdrawal of a signed amount a that succeeds stores,
\* under its tx id, an Undisputed record whose amount is -a
C13_Original ==
  [][(IsStep("Withdrawal") /\ result' = Ok) =>
       LET data == instruction'.data IN
       TargetAfter.txhistory[data.tx] =
         [client |-> data.client, tx |-> data.tx,
          amount |-> 0 - data.amount, state |-> "Undisputed"] ]_vars

\* C14: executing an instruction for a client leaves the account of every
\* other client as it was and creates no account but that client's; records
\* of two clients under one tx id are independent
C14_OtherAccountsUntouched ==
  [][executed' = executed + 1 =>
       /\ DOMAIN thebook' = (DOMAIN thebook) \cup {StepClient}
       /\ \A c \in DOMAIN thebook : c # StepClient => thebook'[c] = thebook[c] ]_vars

\* C14 witness: an instruction changed the state of a client's record while
\* the other client's record with the same tx id is in another state
C14_Witness ==
  /\ instruction.typ \in {"Dispute", "Resolve", "Chargeback"}
  /\ result = Ok
  /\ \E c \in DOMAIN thebook :
       /\ c # instruction.data.client
       /\ instruction.data.tx \in DOMAIN thebook[c].txhistory
       /\ thebook[c].txhistory[instruction.data.tx].state
            # LastAccount.txhistory[instruction.data.tx].state

\* the account with the locked flag inverted
FlipLocked(account) == [account EXCEPT !.locked = ~account.locked]

\* C18: locked blocks nothing: applied to the account with locked inverted,
\* the instruction has the same outcome and the same effect on balances and
\* history
C18_LockedBlocksNothing ==
  [][executed' = executed + 1 =>
       \A other \in {apply(FlipLocked(Target), instruction')} :
         /\ other.result = result'
         /\ SameBalances(other.self, TargetAfter)
         /\ other.self.txhistory = TargetAfter.txhistory ]_vars

\* C18 witness: a withdrawal succeeded on a locked account
C18_Witness ==
  /\ instruction.typ = "Withdrawal"
  /\ result = Ok
  /\ LastAccount.locked
  /\ LastAccount.available # 0

\* C20: a dispute of an Undisputed record whose amount exceeds the available
\* balance succeeds, makes available negative and leaves total
C20_DisputeNeedsNoFunds ==
  [][(/\ IsStep("Dispute") /\ StepRecorded
      /\ Target.txhistory[StepTx].state = "Undisputed"
      /\ Target.txhistory[StepTx].amount > Target.available)
       => /\ result' = Ok
          /\ TargetAfter.available < 0
          /\ TargetAfter.total = Target.total ]_vars

\* C20 witness: a deposit that was partly withdrawn is under dispute and
\* available is negative
C20_Witness ==
  /\ instruction.typ = "Dispute"
  /\ result = Ok
  /\ LastAccount.txhistory[instruction.data.tx].amount > 0
  /\ LastAccount.available < 0
  /\ LastAccount.total > 0

\* once main is done the sink holds one row for every account of the
\* register, and no other row
RunSnapshot ==
  pc = "done" =>
    /\ BagCardinality(output) = Cardinality(DOMAIN thebook)
    /\ \A c \in DOMAIN thebook : CopiesIn(convert_from(c, thebook[c]), output) = 1

\* C15: no failed instruction stops the processing: after it main still reads
\* records, the run comes to its end and the snapshot is written
C15_FailuresDoNotStopTheRun ==
  /\ [][(executed' = executed + 1 /\ result' # Ok) => pc' = "process"]_vars
  /\ [](pc \in {"process", "done"})
  /\ []RunSnapshot
  /\ <>(pc = "done")

\* C15 witness: the run is done, its last instruction failed, and two
\* accounts are in the snapshot
C15_Witness ==
  /\ pc = "done"
  /\ result # Ok
  /\ executed = MaxRunLength
  /\ BagCardinality(output) > 1

\* C16: the account a client has in the register and the outcome of each of
\* its instructions are those of a worker that executes that client's
\* instructions alone, in their order: whatever the instructions of the
\* other clients are and wherever they come in between
C16_ShardedByClient ==
  /\ shard_result = result
  /\ DOMAIN shards = DOMAIN thebook
  /\ \A c \in DOMAIN thebook :
       /\ DOMAIN shards[c] = {c}
       /\ shards[c][c] = thebook[c]

\* C16 witness: the instructions of two clients came interleaved, the last
\* one failed, and one account has funds held
C16_Witness ==
  /\ Cardinality(DOMAIN thebook) = 2
  /\ result # Ok
  /\ \A c \in DOMAIN thebook : thebook[c].txhistory # << >>
  /\ \E c \in DOMAIN thebook : thebook[c].held # 0

ZeroAccount ==
  [available |-> 0, held |-> 0, total |-> 0, locked |-> FALSE, txhistory |-> << >>]

\* C17: the register holds an account for exactly the clients of the
\* instructions read, failed ones included, and the snapshot one row for
\* each; the first instruction of a client is applied to an account with
\* zero balances, unlocked, with an empty history
C17_OneAccountPerClientSeen ==
  /\ [](DOMAIN thebook = seen)
  /\ [](pc = "done" =>
          /\ { row.client : row \in BagToSet(output) } = seen
          /\ BagCardinality(output) = Cardinality(seen))
  /\ [][(executed' = executed + 1 /\ StepClient \notin DOMAIN thebook) =>
          LET first == apply(ZeroAccount, instruction') IN
          /\ TargetAfter = first.self
          /\ result' = first.result]_vars

\* C17 witness: the run is done and the snapshot has the row of a client
\* whose only instructions failed, next to another client's
C17_Witness ==
  /\ pc = "done"
  /\ \E c \in seen :
       /\ thebook[c] = ZeroAccount
       /\ CopiesIn(convert_from(c, ZeroAccount), output) = 1
  /\ \E c \in seen : thebook[c].total # 0

\* C19: while the stream holds deposits and withdrawals only, every account
\* has held = 0, is unlocked, and has available = total = its deposits minus
\* its withdrawals that did not exceed the available balance; so has every
\* row of the snapshot
C19_DepositsAndWithdrawalsOnly ==
  dw_only =>
    /\ DOMAIN dw_net = DOMAIN thebook
    /\ \A c \in DOMAIN thebook :
         /\ thebook[c].held = 0
         /\ ~thebook[c].locked
         /\ thebook[c].available = dw_net[c]
         /\ thebook[c].total = dw_net[c]
    /\ pc = "done" =>
         /\ { row.client : row \in BagToSet(output) } = DOMAIN dw_net
         /\ \A row \in BagToSet(output) :
              /\ row.held = 0
              /\ ~row.locked
              /\ row.available = dw_net[row.client]
              /\ row.total = dw_net[row.client]

\* C19 witness: a run of deposits and withdrawals is done, its last
\* withdrawal failed and a client has a positive balance
C19_Witness ==
  /\ pc = "done"
  /\ dw_only
  /\ executed = MaxRunLength
  /\ result.kind = "TransactionError"
  /\ \E row \in BagToSet(output) : row.available > 0

\* a row with an unknown type tag, or a deposit or withdrawal without amount
Malformed(row) ==
  \/ row.typ = UnknownType
  \/ row.typ \in {"Deposit", "Withdrawal"} /\ row.amount = None

\* main has ended without a dump
Fatal == pc \in {"failed", "panicked"}

\* C21: once a malformed row is read the run is over with a fatal error: the
\* row is not executed, no snapshot row has been or will be written, and the
\* register is left as the instructions before the row made it
C21_MalformedRecordIsFatal ==
  /\ [](Malformed(record) => (Fatal /\ output = EmptyBag))
  /\ [][Malformed(record') =>
         /\ thebook' = thebook
         /\ executed' = executed
         /\ instruction' = instruction]_vars
  /\ [][Fatal => (pc' = pc /\ thebook' = thebook /\ output' = output)]_vars

\* C21 witness: the run ended at a deposit without amount after two
\* instructions had changed an account
C21_Witness ==
  /\ pc = "panicked"
  /\ record.typ = "Deposit"
  /\ executed = 2
  /\ output = EmptyBag
  /\ \E c \in DOMAIN thebook : thebook[c].available # 0 /\ thebook[c].held # 0

\* C21 witness of the other kind of malformed row: an unknown type tag
C21_WitnessUnknownType ==
  /\ pc = "failed"
  /\ record.typ = UnknownType
  /\ \E c \in DOMAIN thebook : thebook[c].total # 0

\* the record without its dispute state
Stored(entry) == [client |-> entry.client, tx |-> entry.tx, amount |-> entry.amount]

\* the two histories have the same entries with the same client, tx and amount
SameEntries(h1, h2) ==
  /\ DOMAIN h1 = DOMAIN h2
  /\ \A t \in DOMAIN h1 : Stored(h1[t]) = Stored(h2[t])

\* C25: a dispute, resolve or chargeback, successful or not, adds and removes
\* no history entry and changes no entry's client, tx or amount, in any
\* account; a successful one changes the state of the referenced record and
\* of no other; a step that adds an entry or changes an entry's client, tx
\* or amount is a deposit or a successful withdrawal
C25_HistoryFrame ==
  [][/\ IsOperationStep =>
          /\ SameEntries(Target.txhistory, TargetAfter.txhistory)
          /\ \A c \in DOMAIN thebook :
               c # StepClient => thebook'[c].txhistory = thebook[c].txhistory
          /\ result' = Ok =>
               /\ StepRecorded
               /\ TargetAfter.txhistory[StepTx].state # Target.txhistory[StepTx].state
               /\ \A t \in DOMAIN Target.txhistory :
                    t # StepTx => TargetAfter.txhistory[t] = Target.txhistory[t]
     /\ (IsStep("Withdrawal") /\ result' # Ok) =>
          TargetAfter.txhistory = Target.txhistory
     /\ (executed' = executed + 1
           /\ ~SameEntries(Target.txhistory, TargetAfter.txhistory))
          => \/ instruction'.typ = "Deposit"
             \/ instruction'.typ = "Withdrawal" /\ result' = Ok]_vars

\* C25 witness: a resolve succeeded on an account that holds another record
\* too, next to another client's account with a history
C25_Witness ==
  /\ instruction.typ = "Resolve"
  /\ result = Ok
  /\ Cardinality(DOMAIN LastAccount.txhistory) = 2
  /\ \E c \in DOMAIN thebook :
       c # instruction.data.client /\ thebook[c].txhistory # << >>

\* the step is applied to the record of a withdrawal of a non-negative
\* amount whose dispute is at one of the stages
WithdrawnAt(stages) ==
  /\ StepKey \in DOMAIN withdrawn
  /\ withdrawn[StepKey].amount >= 0
  /\ withdrawn[StepKey].stage \in stages

\* C22: a dispute of the record of a successful withdrawal of a >= 0 (not in
\* dispute, not charged back) succeeds, adds a to available, takes a from
\* held and keeps total; the resolve of that dispute succeeds and takes a
\* from available and adds a to held: what the dispute did is undone
C22_DisputeOfWithdrawal ==
  /\ [][(IsStep("Dispute") /\ WithdrawnAt({"Recorded", "Resolved"})) =>
          /\ result' = Ok
          /\ TargetAfter.available = Target.available + withdrawn[StepKey].amount
          /\ TargetAfter.held = Target.held - withdrawn[StepKey].amount
          /\ TargetAfter.total = Target.total]_vars
  /\ [][(IsStep("Resolve") /\ WithdrawnAt({"Disputed"})) =>
          /\ result' = Ok
          /\ TargetAfter.available = Target.available - withdrawn[StepKey].amount
          /\ TargetAfter.held = Target.held + withdrawn[StepKey].amount
          /\ TargetAfter.total = Target.total
          /\ \A f \in {"available", "held", "total"} :
               Effect(Target, TargetAfter)[f] + withdrawn[StepKey].dispute[f] = 0]_vars

\* the <<client, tx>> of the last executed instruction, in a state
LastKey == <<instruction.data.client, instruction.data.tx>>

\* C22 witness: the dispute of a withdrawal of a positive amount was resolved
C22_Witness ==
  /\ instruction.typ = "Resolve"
  /\ result = Ok
  /\ LastKey \in DOMAIN withdrawn
  /\ withdrawn[LastKey].amount > 0
  /\ withdrawn[LastKey].stage = "Resolved"

\* C22 witness of the dispute itself: held is negative while the withdrawal
\* is in dispute
C22_WitnessDisputed ==
  /\ instruction.typ = "Dispute"
  /\ result = Ok
  /\ LastKey \in DOMAIN withdrawn
  /\ withdrawn[LastKey].amount > 0
  /\ withdrawn[LastKey].stage = "Disputed"
  /\ LastAccount.held < 0

\* C27: for a withdrawal of a >= 0 that succeeded, was disputed and was then
\* charged back, what the three instructions did to available, to held and
\* to total adds up to zero, and the account is locked
C27_ChargebackRefundsWithdrawal ==
  \A k \in DOMAIN withdrawn :
    (withdrawn[k].stage = "Chargedback" /\ withdrawn[k].amount >= 0) =>
      /\ \A f \in {"available", "held", "total"} :
           withdrawn[k].withdrawal[f] + withdrawn[k].dispute[f]
             + withdrawn[k].chargeback[f] = 0
      /\ thebook[k[1]].locked

\* C27 witness: a withdrawal of a positive amount has been charged back
C27_Witness ==
  \E k \in DOMAIN withdrawn :
    /\ withdrawn[k].stage = "Chargedback"
    /\ withdrawn[k].amount > 0
    /\ withdrawn[k].withdrawal.total < 0
    /\ withdrawn[k].chargeback.total > 0

\* the sum of the stored amounts of the records of a history whose tx id is
\* in txs
RECURSIVE SumOfAmounts(_, _)
SumOfAmounts(txhistory, txs) ==
  IF txs = {} THEN 0
  ELSE LET t == CHOOSE x \in txs : TRUE IN
       txhistory[t].amount + SumOfAmounts(txhistory, txs \ {t})

\* the tx ids of the records of a history that are in one of the states
InState(txhistory, states) ==
  {t \in DOMAIN txhistory : txhistory[t].state \in states}

\* C23: in an account no deposit or successful withdrawal of which reused a
\* tx id of its history, held is the sum of the stored amounts of the
\* Disputed records (0 when there is none)
C23_HeldIsSumOfDisputed ==
  \A c \in DOMAIN thebook :
    c \notin reused =>
      thebook[c].held =
        SumOfAmounts(thebook[c].txhistory, InState(thebook[c].txhistory, {"Disputed"}))

\* C23 witness: no tx id was reused and two records of different amounts are
\* Disputed
C23_Witness ==
  \E c \in DOMAIN thebook :
    /\ c \notin reused
    /\ InState(thebook[c].txhistory, {"Disputed"}) = {1, 2}
    /\ thebook[c].txhistory[1].amount # thebook[c].txhistory[2].amount
    /\ thebook[c].held # 0

\* C23 witness of a dispute that is over: the record is charged back, nothing
\* is held, and another record is Undisputed
C23_WitnessChargedback ==
  \E c \in DOMAIN thebook :
    /\ c \notin reused
    /\ InState(thebook[c].txhistory, {"Chargedback"}) # {}
    /\ InState(thebook[c].txhistory, {"Undisputed"}) # {}

\* C24: in an account that got no negative amount and no deposit or
\* successful withdrawal of which reused a tx id of its history, total is
\* the sum of the stored amounts of the records that are not Chargedback; a
\* chargeback of a record that has been charged back leaves total as it is
C24_TotalIsSumOfStanding ==
  /\ [](\A c \in DOMAIN thebook :
          (c \notin reused /\ c \notin negative) =>
            thebook[c].total =
              SumOfAmounts(thebook[c].txhistory,
                           InState(thebook[c].txhistory,
                                   {"Undisputed", "Disputed", "Resolved"})))
  /\ [][(IsStep("Chargeback") /\ StepKey \in charged_back
           /\ StepClient \notin reused /\ StepClient \notin negative)
          => TargetAfter.total = Target.total]_vars

\* C24 witness: a record is charged back and a second chargeback of it has
\* failed
C24_Witness ==
  /\ instruction.typ = "Chargeback"
  /\ result # Ok
  /\ instruction.data.client \notin reused \cup negative
  /\ InState(LastAccount.txhistory, {"Chargedback"}) = {instruction.data.tx}

\* the step executes the first deposit or withdrawal that carries a
\* <<client, tx>> which a dispute, resolve or chargeback named before
FirstArrival ==
  /\ executed' = executed + 1
  /\ instruction'.typ \in {"Deposit", "Withdrawal"}
  /\ StepKey \in early
  /\ StepKey \notin carried

\* a dispute, resolve or chargeback of a <<client, tx>> that no deposit or
\* withdrawal has carried yet fails as unknown-transaction, without effect
EarlyOperationFails ==
  (IsOperationStep /\ StepKey \notin carried) =>
    /\ result'.kind = "OperationError"
    /\ TargetAfter = Target

\* the transaction is recorded Undisputed and held is as it was
RecordedUndisputed ==
  /\ StepTx \in DOMAIN TargetAfter.txhistory
  /\ TargetAfter.txhistory[StepTx].state = "Undisputed"
  /\ TargetAfter.held = Target.held

\* C26 as stated: an early dispute, resolve or chargeback fails as
\* unknown-transaction, and the deposit or withdrawal that arrives later is
\* recorded Undisputed with held unchanged
C26_Original ==
  /\ [][EarlyOperationFails]_vars
  /\ [][FirstArrival => RecordedUndisputed]_vars

\* C26: an early dispute, resolve or chargeback fails as
\* unknown-transaction; the deposit, or the withdrawal that succeeds, which
\* arrives later is recorded Undisputed with held unchanged; a withdrawal
\* that fails is not recorded and leaves the account as it was
C26_NoDeferredEffect ==
  /\ [][EarlyOperationFails]_vars
  /\ [][(FirstArrival /\ result' = Ok) => RecordedUndisputed]_vars
  /\ [][(FirstArrival /\ result' # Ok) =>
          /\ instruction'.typ = "Withdrawal"
          /\ TargetAfter = Target]_vars

\* C26 witness: the deposit arrived after a dispute that had named its tx,
\* on an account with funds held for another record
C26_Witness ==
  /\ instruction.typ = "Deposit"
  /\ LastKey \in early
  /\ instruction.data.client \notin reused
  /\ LastAccount.txhistory[instruction.data.tx].state = "Undisputed"
  /\ LastAccount.held # 0

\* C26 witness of the withdrawal that fails: it arrived after a dispute
\* that had named its tx
C26_WitnessFailedWithdrawal ==
  /\ instruction.typ = "Withdrawal"
  /\ result # Ok
  /\ LastKey \in early
  /\ instruction.data.tx \notin DOMAIN LastAccount.txhistory

====
